---- MODULE Spec2Model ----
(***************************************************************************)
(* NGO food dashboard (src/new.py): a Streamlit script over two CSV tables. *)
(* Every user interaction re-runs the whole script top to bottom; a button  *)
(* call returns True only in the run caused by its own click.  One action   *)
(* of this model is one such run (Rerun), started by one interaction.       *)
(*                                                                          *)
(* Tables are modelled at the level of the CSV text on disk: a sequence of  *)
(* rows whose text fields are strings.  Quantities are integers and dates   *)
(* are 'YYYY-MM-DD' strings; both survive to_csv / read_csv unchanged.     *)
(* Text fields do not: read_csv parses the default NA markers to NaN and    *)
(* to_csv writes NaN as the empty field.                                    *)
(***************************************************************************)
EXTENDS Integers, Sequences, FiniteSets, TLC

\* ------------------------------------------------------------------ bounds
MaxInventoryRows == 2
MaxWasteRows == 2
\* Add submissions one browser tab makes in SpecConc.
MaxSubmissions == 2

\* The dates the system clock can show during a session.
Days == {"2026-11-04", "2026-11-05"}

\* Submissions of the Add form: Item text, Quantity >= 1, Expiry Date.
AddInputs ==
    { [item |-> "Rice", quantity |-> 1, expiry_date |-> "2026-12-01"],
      [item |-> "NA",   quantity |-> 2, expiry_date |-> "2026-11-05"],
      [item |-> "",     quantity |-> 1, expiry_date |-> "2026-11-04"] }

\* Quantity Wasted >= 1 and Reason of a submission of the Log Waste form.
WasteInputs ==
    { [qty |-> 1, reason |-> "spoiled"],
      [qty |-> 2, reason |-> "NA"],
      [qty |-> 1, reason |-> ""] }

\* Two browser tabs on the same data directory.
Sessions == {1, 2}

\* ------------------------------------------------------------- CSV values
\* A missing value of a loaded DataFrame (float nan); no user text equals it.
NaN == "float(nan)"

\* Strings pandas.read_csv parses to NaN by default (keep_default_na=True).
NaValues ==
    { "", "#N/A", "#N/A N/A", "#NA", "-1.#IND", "-1.#QNAN", "-NaN", "-nan",
      "1.#IND", "1.#QNAN", "<NA>", "N/A", "NA", "NULL", "NaN", "None", "n/a",
      "nan", "null" }

ReadCsvField(text) == IF text \in NaValues THEN NaN ELSE text

\* DataFrame.to_csv writes NaN with na_rep = '' and a string as itself.
\* None (an st.selectbox without options) is written the same way.
None == "None()"

ToCsvField(value) == IF value \in {NaN, None} THEN "" ELSE value

\* pd.read_csv(inventory_file): the loaded DataFrame, index 0..n-1 kept as
\* sequence positions 1..n.
load_inventory(file) ==
    [k \in 1..Len(file) |-> [file[k] EXCEPT !.Item = ReadCsvField(@)]]

load_waste_log(file) ==
    [k \in 1..Len(file) |->
        [file[k] EXCEPT !.Item = ReadCsvField(@), !.Reason = ReadCsvField(@)]]

\* df.to_csv(inventory_file, index=False): the whole file is replaced.
save_inventory(df) ==
    [k \in 1..Len(df) |-> [df[k] EXCEPT !.Item = ToCsvField(@)]]

save_waste_log(df) ==
    [k \in 1..Len(df) |->
        [df[k] EXCEPT !.Item = ToCsvField(@), !.Reason = ToCsvField(@)]]

\* init_data_files: a header-only table is written only where the file is
\* absent.  disk = [exists, inv, waste].
InitDataFilesOverwriting(disk) ==
    [exists |-> {"inventory", "waste_log"}, inv |-> <<>>, waste |-> <<>>]

init_data_files(disk) ==
    [exists |-> disk.exists \cup {"inventory", "waste_log"},
     inv    |-> IF "inventory" \in disk.exists THEN disk.inv ELSE <<>>,
     waste  |-> IF "waste_log" \in disk.exists THEN disk.waste ELSE <<>>]

\* df.loc[[i]] for index label i (0-based): a one-row frame.
Loc(df, i) == <<df[i + 1]>>

\* df.drop(index=i)
Drop(df, i) == SubSeq(df, 1, i) \o SubSeq(df, i + 2, Len(df))

\* pd.concat([df, new_row], ignore_index=True)
Concat(df, new_row) == df \o new_row

\* load_inventory()['Item'].unique(): NaN is one of the values.
Unique(df) == {df[k].Item : k \in 1..Len(df)}

\* len(items) == 0
ItemsEmptyNever(items) == FALSE

ItemsEmpty(items) == items = {}

\* What st.selectbox can return for an option list; None when it is empty.
SelectOptions(items) == IF items = {} THEN {None} ELSE items

\* The labels of the 'Entry to Delete' selectbox (format_func); the labels are
\* part of the widget's identity, so a different list is a new widget.
EntryOptions(df) ==
    [k \in 1..Len(df) |-> <<k - 1, df[k].Item, df[k].WasteDate>>]

\* The options of an 'Index' selectbox: df.index.
IndexOptions(df) == [k \in 1..Len(df) |-> <<k - 1>>]

RECURSIVE SumQuantityWasted(_, _, _)
SumQuantityWasted(df, item, k) ==
    IF k = 0 THEN 0
    ELSE SumQuantityWasted(df, item, k - 1)
         + (IF df[k].Item = item THEN df[k].QuantityWasted ELSE 0)

\* groupby('Item')['Quantity Wasted'].sum(): NaN keys are dropped.
GroupSum(df) ==
    [item \in Unique(df) \ {NaN} |-> SumQuantityWasted(df, item, Len(df))]

NoChart == [item \in {} |-> 0]

\* ------------------------------------------------------------ navigation
Pages == {"home", "inventory", "add", "waste", "analytics", "admin"}

NavKeys == {"home_btn", "view_inv", "add_inv", "log_waste", "analytics", "admin"}

NavTargetSwapped(key) ==
    CASE key = "home_btn"  -> "home"
      [] key = "view_inv"  -> "inventory"
      [] key = "add_inv"   -> "add"
      [] key = "log_waste" -> "waste"
      [] key = "analytics" -> "admin"
      [] key = "admin"     -> "analytics"

\* The page each sidebar button stores in st.session_state.active_page.
NavTarget(key) ==
    CASE key = "home_btn"  -> "home"
      [] key = "view_inv"  -> "inventory"
      [] key = "add_inv"   -> "add"
      [] key = "log_waste" -> "waste"
      [] key = "analytics" -> "analytics"
      [] key = "admin"     -> "admin"

\* -------------------------------------------------------------- the state
VARIABLES
    exists,          \* which of the two CSV files exist on disk
    inventory_file,  \* rows of data/inventory.csv
    waste_log_file,  \* rows of data/waste_log.csv
    today,           \* datetime.today().strftime('%Y-%m-%d')
    active_page,     \* st.session_state.active_page ("unset": key absent)
    buttons,         \* the buttons the last run rendered (what can be clicked)
    clicked,         \* the button that is True in the last run, or "none"
    submitted,       \* the form values read by the last run's submit, if any
    options,         \* option labels of the row selectbox the last run rendered
    i,               \* value of that selectbox ('Entry to Delete' / 'Index')
    src,             \* value of the 'Delete From' selectbox, if rendered
    preview,         \* the one-row frame st.write showed in the last run
    error,           \* exception that ended the last run, or "none"
    chart_data,      \* the series plotted by the last run
    sess             \* SpecConc: per tab, the Add run in flight

vars == <<exists, inventory_file, waste_log_file, today, active_page, buttons,
          clicked, submitted, options, i, src, preview, error,
          chart_data, sess>>

\* A widget the last run did not render has no state.
Unrendered == "unrendered"

NoForm == [item |-> "", quantity |-> 1, expiry_date |-> "", reason |-> ""]

Idle == [pc |-> "idle", new_row |-> <<>>, df |-> <<>>, done |-> 0]

Init ==
    /\ exists \in SUBSET {"inventory", "waste_log"}
    /\ inventory_file = <<>>
    /\ waste_log_file = <<>>
    /\ today \in Days
    /\ active_page = "unset"
    /\ buttons = {}
    /\ clicked = "none"
    /\ submitted = NoForm
    /\ options = <<>>
    /\ i = 0
    /\ src = Unrendered
    /\ preview = <<>>
    /\ error = "none"
    /\ chart_data = NoChart
    /\ sess = [s \in Sessions |-> Idle]

\* ------------------------------------------------------------- one run
\* st.button(key): True only in the run its own click caused.
Button(key, click) == click = key

\* What a run leaves behind when its page renders nothing of its own.
Blank(disk) ==
    [inv |-> disk.inv, waste |-> disk.waste, buttons |-> {}, options |-> <<>>,
     i |-> 0, src |-> Unrendered, preview |-> <<>>, error |-> "none",
     chart_data |-> NoChart, submitted |-> NoForm]

\* The value a row selectbox returns in this run: the user's choice if the
\* last run rendered the same widget (same option labels), else index 0.
Selected(opts, w) == IF opts = options THEN w.i ELSE 0

\* Home and Inventory read the tables and write nothing.
HomePage(disk) == Blank(disk)

InventoryPage(disk) == Blank(disk)

AddPage(click, w, disk) ==
    LET new_row == <<[Item |-> w.item, Quantity |-> w.quantity,
                      DateReceived |-> today, ExpiryDate |-> w.expiry_date]>>
        df == Concat(load_inventory(disk.inv), new_row)
        page == [Blank(disk) EXCEPT !.buttons = {"btn_add_item"}]
    IN  IF Button("btn_add_item", click)
        THEN [page EXCEPT !.inv = save_inventory(df),
                          !.submitted = [NoForm EXCEPT
                              !.item = w.item, !.quantity = w.quantity,
                              !.expiry_date = w.expiry_date]]
        ELSE page

WastePage(click, w, disk) ==
    LET items == Unique(load_inventory(disk.inv))
        form == ~ItemsEmpty(items)
        log == form /\ Button("btn_log_waste", click)
        new_row == <<[Item |-> w.sel_item, QuantityWasted |-> w.qty,
                      Reason |-> w.reason, WasteDate |-> today]>>
        logged == IF log
                  THEN save_waste_log(Concat(load_waste_log(disk.waste), new_row))
                  ELSE disk.waste
        df == load_waste_log(logged)
        opts == EntryOptions(df)
        sel == Selected(opts, w)
        del == df # <<>> /\ Button("btn_del_waste", click)
    IN  [Blank(disk) EXCEPT
            !.waste = IF del THEN save_waste_log(Drop(df, sel)) ELSE logged,
            !.buttons = (IF form THEN {"btn_log_waste"} ELSE {})
                        \cup (IF df # <<>> THEN {"btn_del_waste"} ELSE {}),
            !.options = opts,
            !.i = IF df # <<>> THEN sel ELSE 0,
            !.preview = IF df # <<>> THEN Loc(df, sel) ELSE <<>>,
            !.submitted = IF log
                          THEN [NoForm EXCEPT !.item = w.sel_item,
                                   !.quantity = w.qty, !.reason = w.reason]
                          ELSE NoForm]

\* The names the analytics branch has bound when it reaches the chart: every
\* run executes the script in a fresh namespace, and waste_df is assigned
\* only in the home branch.
AnalyticsPage(disk) ==
    LET df == load_waste_log(disk.waste)
        bound == [df |-> df]
    IN  IF df = <<>> THEN Blank(disk)
        ELSE IF "waste_df" \in DOMAIN bound
        THEN [Blank(disk) EXCEPT !.chart_data = GroupSum(bound.waste_df)]
        ELSE [Blank(disk) EXCEPT !.error = "NameError"]

AdminButtons == {"view_raw", "admin_delete", "admin_reset", "admin_download"}

\* The 'Delete Entry' panel, rendered only while admin_delete is True.
AdminDeletePanel(click, w, disk, page) ==
    LET from == IF src = Unrendered THEN "Inventory" ELSE w.src
        inv_df == load_inventory(disk.inv)
        waste_df == load_waste_log(disk.waste)
        df == IF from = "Inventory" THEN inv_df ELSE waste_df
        opts == IndexOptions(df)
        sel == Selected(opts, w)
        key == IF from = "Inventory" THEN "btn_del_inv" ELSE "btn_del_admin_waste"
        panel == [page EXCEPT !.src = from]
    IN  IF df = <<>> THEN panel
        ELSE [panel EXCEPT
                !.options = opts, !.i = sel, !.preview = Loc(df, sel),
                !.buttons = @ \cup {key},
                !.inv = IF from = "Inventory" /\ Button("btn_del_inv", click)
                        THEN save_inventory(Drop(inv_df, sel)) ELSE @,
                !.waste = IF from # "Inventory"
                             /\ Button("btn_del_admin_waste", click)
                          THEN save_waste_log(Drop(waste_df, sel)) ELSE @]

\* The 'Reset All' panel, rendered only while admin_reset is True.
AdminResetPanel(click, page) ==
    LET panel == [page EXCEPT !.buttons = @ \cup {"btn_confirm_reset"}]
    IN  IF Button("btn_confirm_reset", click)
        THEN [panel EXCEPT !.inv = save_inventory(<<>>),
                           !.waste = save_waste_log(<<>>)]
        ELSE panel

AdminPage(click, w, disk) ==
    LET page == [Blank(disk) EXCEPT !.buttons = AdminButtons]
        deleted == IF Button("admin_delete", click)
                   THEN AdminDeletePanel(click, w, disk, page) ELSE page
        reset == IF Button("admin_reset", click)
                 THEN AdminResetPanel(click, deleted) ELSE deleted
    IN  IF Button("admin_download", click)
        THEN [reset EXCEPT !.buttons =
                 @ \cup {"Download Inventory", "Download Waste Log"}]
        ELSE reset

\* The branch of the page dispatch that renders `page`.
View(page, click, w, disk) ==
    CASE page = "home"      -> HomePage(disk)
      [] page = "inventory" -> InventoryPage(disk)
      [] page = "add"       -> AddPage(click, w, disk)
      [] page = "waste"     -> WastePage(click, w, disk)
      [] page = "analytics" -> AnalyticsPage(disk)
      [] page = "admin"     -> AdminPage(click, w, disk)

\* One run of the script, caused by a click on `click` ("none": a widget
\* change or the first load), with the widgets holding the values w.
Rerun(click, w) ==
    LET default == IF active_page = "unset" THEN "home" ELSE active_page
        page == IF click \in NavKeys THEN NavTarget(click) ELSE default
    IN  \E disk \in {init_data_files([exists |-> exists,
                                      inv |-> inventory_file,
                                      waste |-> waste_log_file])} :
        \E r \in {View(page, click, w, disk)} :
            /\ exists' = disk.exists
            /\ inventory_file' = r.inv
            /\ waste_log_file' = r.waste
            /\ active_page' = page
            /\ buttons' = NavKeys \cup r.buttons
            /\ clicked' = click
            /\ submitted' = r.submitted
            /\ options' = r.options
            /\ i' = r.i
            /\ src' = r.src
            /\ preview' = r.preview
            /\ error' = r.error
            /\ chart_data' = r.chart_data
            /\ UNCHANGED <<today, sess>>

\* The widget values of a run in which the user changed nothing.
Widgets ==
    [item |-> "", quantity |-> 1, expiry_date |-> today,
     sel_item |-> None, qty |-> 1, reason |-> "", i |-> i, src |-> src]

\* ------------------------------------------------------ the interactions
FirstLoad ==
    /\ active_page = "unset"
    /\ Rerun("none", Widgets)

ClickNav ==
    \E key \in NavKeys \cap buttons : Rerun(key, Widgets)

\* Editing a form field re-runs the script with no button True.
WidgetChange ==
    /\ active_page \in {"add", "waste"}
    /\ Rerun("none", Widgets)

ClickAddItem ==
    /\ "btn_add_item" \in buttons
    /\ Len(inventory_file) < MaxInventoryRows
    /\ \E f \in AddInputs :
          Rerun("btn_add_item",
                [Widgets EXCEPT !.item = f.item, !.quantity = f.quantity,
                                !.expiry_date = f.expiry_date])

ClickLogWaste ==
    /\ "btn_log_waste" \in buttons
    /\ Len(waste_log_file) < MaxWasteRows
    /\ \E f \in WasteInputs :
       \E it \in SelectOptions(Unique(load_inventory(inventory_file))) :
          Rerun("btn_log_waste",
                [Widgets EXCEPT !.sel_item = it, !.qty = f.qty,
                                !.reason = f.reason])

\* Choosing another row in the row selectbox.
SelectEntry ==
    \E j \in 0..(Len(options) - 1) :
        /\ j # i
        /\ Rerun("none", [Widgets EXCEPT !.i = j])

ClickDeleteWasteEntry ==
    /\ "btn_del_waste" \in buttons
    /\ Rerun("btn_del_waste", Widgets)

ClickViewData ==
    /\ "view_raw" \in buttons
    /\ Rerun("view_raw", Widgets)

ClickDeleteEntry ==
    /\ "admin_delete" \in buttons
    /\ Rerun("admin_delete", Widgets)

\* Choosing the table in the 'Delete From' selectbox.
SelectDeleteFrom ==
    /\ src # Unrendered
    /\ \E from \in {"Inventory", "Waste Log"} \ {src} :
          Rerun("none", [Widgets EXCEPT !.src = from])

\* The confirm button of the 'Delete Entry' panel, whichever is on screen.
ClickDeleteConfirm ==
    \E key \in {"btn_del_inv", "btn_del_admin_waste"} \cap buttons :
        Rerun(key, Widgets)

ClickResetAll ==
    /\ "admin_reset" \in buttons
    /\ Rerun("admin_reset", Widgets)

ClickConfirmReset ==
    /\ "btn_confirm_reset" \in buttons
    /\ Rerun("btn_confirm_reset", Widgets)

ClickDownloadCSV ==
    /\ "admin_download" \in buttons
    /\ Rerun("admin_download", Widgets)

ClickDownloadFile ==
    \E key \in {"Download Inventory", "Download Waste Log"} \cap buttons :
        Rerun(key, Widgets)

Next ==
    \/ FirstLoad
    \/ ClickNav
    \/ WidgetChange
    \/ ClickAddItem
    \/ ClickLogWaste
    \/ SelectEntry
    \/ ClickDeleteWasteEntry
    \/ ClickViewData
    \/ ClickDeleteEntry
    \/ SelectDeleteFrom
    \/ ClickDeleteConfirm
    \/ ClickResetAll
    \/ ClickConfirmReset
    \/ ClickDownloadCSV
    \/ ClickDownloadFile

Spec == Init /\ [][Next]_vars

\* ------------------------------------------------- two concurrent tabs
\* Each tab runs the script in its own thread.  Both tabs are on the Add
\* view; a click on 'Add Item' runs init_data_files, builds new_row and
\* loads the table (AddItemLoad), and later concatenates and saves
\* (AddItemSave).  Nothing locks the file between the two steps.
AddItemLoad(s) ==
    /\ sess[s].pc = "idle"
    /\ sess[s].done < MaxSubmissions
    /\ \E f \in AddInputs :
       \E disk \in {init_data_files([exists |-> exists,
                                     inv |-> inventory_file,
                                     waste |-> waste_log_file])} :
          /\ Len(disk.inv) < MaxInventoryRows
          /\ exists' = disk.exists
          /\ inventory_file' = disk.inv
          /\ waste_log_file' = disk.waste
          /\ sess' = [sess EXCEPT ![s] =
                [@ EXCEPT !.pc = "loaded",
                          !.new_row = <<[Item |-> f.item,
                                         Quantity |-> f.quantity,
                                         DateReceived |-> today,
                                         ExpiryDate |-> f.expiry_date]>>,
                          !.df = load_inventory(disk.inv)]]
    /\ UNCHANGED <<today, active_page, buttons, clicked, submitted, options,
                   i, src, preview, error, chart_data>>

\* A save that would first load the file again and append to that.
AddItemSaveReloading(s) ==
    /\ sess[s].pc = "loaded"
    /\ inventory_file' =
          save_inventory(Concat(load_inventory(inventory_file), sess[s].new_row))
    /\ sess' = [sess EXCEPT ![s] =
          [@ EXCEPT !.pc = "idle", !.new_row = <<>>, !.df = <<>>,
                    !.done = @ + 1]]
    /\ UNCHANGED <<exists, waste_log_file, today, active_page, buttons, clicked,
                   submitted, options, i, src, preview, error, chart_data>>

AddItemSave(s) ==
    /\ sess[s].pc = "loaded"
    /\ inventory_file' = save_inventory(Concat(sess[s].df, sess[s].new_row))
    /\ sess' = [sess EXCEPT ![s] =
          [@ EXCEPT !.pc = "idle", !.new_row = <<>>, !.df = <<>>,
                    !.done = @ + 1]]
    /\ UNCHANGED <<exists, waste_log_file, today, active_page, buttons, clicked,
                   submitted, options, i, src, preview, error, chart_data>>

NextConc == \E s \in Sessions : AddItemLoad(s) \/ AddItemSave(s)

SpecConc == Init /\ [][NextConc]_vars

\* =================================================================== claims
BothFiles == {"inventory", "waste_log"}

Last(file) == file[Len(file)]

\* C1: after 'Reset All' and then 'Confirm Reset', both tables have 0 rows
\* (header only).  Stated on the run the click on 'Confirm Reset' causes.
C1_ConfirmResetClears ==
    clicked = "btn_confirm_reset" =>
        /\ exists = BothFiles
        /\ inventory_file = <<>>
        /\ waste_log_file = <<>>

\* C2: in the 'Delete Entry' panel the confirm button removes the selected
\* row from the chosen table and saves it; with the chosen table empty no
\* confirm button is offered and the table is unchanged.
C2_AdminDeleteRemovesRow ==
    [][ /\ clicked' = "btn_del_inv" =>
             /\ Len(inventory_file) > 0
             /\ Len(inventory_file') = Len(inventory_file) - 1
             /\ load_inventory(inventory_file') =
                   Drop(load_inventory(inventory_file), i)
        /\ clicked' = "btn_del_admin_waste" =>
             /\ Len(waste_log_file) > 0
             /\ Len(waste_log_file') = Len(waste_log_file) - 1
             /\ load_waste_log(waste_log_file') =
                   Drop(load_waste_log(waste_log_file), i)
        /\ (clicked' = "admin_delete" /\ src' = "Inventory"
              /\ inventory_file = <<>>) =>
             /\ "btn_del_inv" \notin buttons'
             /\ inventory_file' = inventory_file
        /\ (clicked' = "admin_delete" /\ src' = "Waste Log"
              /\ waste_log_file = <<>>) =>
             /\ "btn_del_admin_waste" \notin buttons'
             /\ waste_log_file' = waste_log_file
      ]_vars

\* C3: every executed delete takes exactly one row from its table, namely the
\* row the run previewed for the selected position; every other row of that
\* table keeps its field values and order; the other table is unchanged.
C3_DeleteExact ==
    [][ /\ (clicked' = "btn_del_waste"
              /\ waste_log_file' # waste_log_file) =>
             /\ Len(waste_log_file') = Len(waste_log_file) - 1
             /\ preview' = Loc(load_waste_log(waste_log_file), i')
             /\ waste_log_file' = Drop(waste_log_file, i')
             /\ inventory_file' = inventory_file
        /\ (clicked' = "btn_del_inv" /\ inventory_file' # inventory_file) =>
             /\ Len(inventory_file') = Len(inventory_file) - 1
             /\ preview' = Loc(load_inventory(inventory_file), i')
             /\ inventory_file' = Drop(inventory_file, i')
             /\ waste_log_file' = waste_log_file
        /\ (clicked' = "btn_del_admin_waste"
              /\ waste_log_file' # waste_log_file) =>
             /\ Len(waste_log_file') = Len(waste_log_file) - 1
             /\ preview' = Loc(load_waste_log(waste_log_file), i')
             /\ waste_log_file' = Drop(waste_log_file, i')
             /\ inventory_file' = inventory_file
      ]_vars

\* C4: a submission of the Add form leaves the saved Inventory table with
\* the old rows unchanged, followed by one new row holding the submitted
\* Item, Quantity and Expiry Date and today's date; WasteLog is unchanged.
C4_AddAppendsOneRow ==
    [][ clicked' = "btn_add_item" =>
          /\ inventory_file' =
                Append(inventory_file,
                       [Item |-> submitted'.item,
                        Quantity |-> submitted'.quantity,
                        DateReceived |-> today,
                        ExpiryDate |-> submitted'.expiry_date])
          /\ waste_log_file' = waste_log_file
      ]_vars

\* C5: a submission of the Log Waste form leaves the saved WasteLog table
\* with the old rows unchanged, followed by one new row holding the selected
\* Item, the quantity, the reason and today's date; Inventory is unchanged.
C5_LogWasteAppendsOneRow ==
    [][ clicked' = "btn_log_waste" =>
          /\ Len(waste_log_file') = Len(waste_log_file) + 1
          /\ ReadCsvField(Last(waste_log_file').Item) = submitted'.item
          /\ Last(waste_log_file').QuantityWasted = submitted'.quantity
          /\ Last(waste_log_file').Reason = submitted'.reason
          /\ Last(waste_log_file').WasteDate = today
          /\ SubSeq(waste_log_file', 1, Len(waste_log_file)) = waste_log_file
          /\ inventory_file' = inventory_file
      ]_vars

\* C6: the Analytics view ends without error; with a non-empty WasteLog its
\* chart data is the per-Item sum of Quantity Wasted of the table it loaded,
\* and with an empty WasteLog it computes nothing.
C6_AnalyticsFromLoadedTable ==
    active_page = "analytics" =>
        /\ error = "none"
        /\ chart_data = IF waste_log_file = <<>> THEN NoChart
                        ELSE GroupSum(load_waste_log(waste_log_file))

\* C7: after every run the active page is one of the six pages; it is home
\* after the first run of a session; a sidebar button sets it to its fixed
\* target; every other interaction leaves it unchanged.
C7_Navigation ==
    [][ /\ active_page' \in Pages
        /\ active_page = "unset" => active_page' = "home"
        /\ clicked' = "home_btn"  => active_page' = "home"
        /\ clicked' = "view_inv"  => active_page' = "inventory"
        /\ clicked' = "add_inv"   => active_page' = "add"
        /\ clicked' = "log_waste" => active_page' = "waste"
        /\ clicked' = "analytics" => active_page' = "analytics"
        /\ clicked' = "admin"     => active_page' = "admin"
        /\ (clicked' \notin NavKeys /\ active_page # "unset") =>
              active_page' = active_page
      ]_vars

C7_Witness ==
    /\ active_page = "waste"
    /\ clicked = "btn_del_waste"

\* C8: a run of the Log Waste view that loads an Inventory table of zero rows
\* renders no Log Waste form and appends no WasteRecord; and a WasteRecord
\* appended by Log Waste has an Item that is one of the loaded Inventory's
\* Item values.
C8_EmptyInventoryGuard ==
    [][ active_page' = "waste" =>
          /\ inventory_file' = <<>> =>
                /\ "btn_log_waste" \notin buttons'
                /\ Len(waste_log_file') <= Len(waste_log_file)
          /\ (clicked' = "btn_log_waste"
                /\ Len(waste_log_file') > Len(waste_log_file)) =>
                ReadCsvField(Last(waste_log_file').Item)
                    \in Unique(load_inventory(inventory_file'))
      ]_vars

C8_Witness ==
    /\ active_page = "waste"
    /\ clicked = "log_waste"
    /\ inventory_file = <<>>
    /\ "btn_log_waste" \notin buttons

\* C9: a tab's save writes the table it loaded plus its own row, whatever the
\* file holds by then, so a save made in between by the other tab is lost.
C9_LastWriterWins ==
    [][ \A s \in Sessions :
          (sess[s].pc = "loaded" /\ sess'[s].pc = "idle") =>
             inventory_file' =
                save_inventory(sess[s].df \o sess[s].new_row)
      ]_vars

\* Two Add submissions have completed and the table has grown by one row.
C9_Witness ==
    /\ sess[1].done = 1
    /\ sess[2].done = 1
    /\ sess[1].pc = "idle"
    /\ sess[2].pc = "idle"
    /\ Len(inventory_file) = 1

MutatingButtons ==
    {"btn_add_item", "btn_log_waste", "btn_del_waste", "btn_del_inv",
     "btn_del_admin_waste", "btn_confirm_reset"}

\* C10: a run in which none of the mutating buttons is pressed leaves the
\* rows of both tables unchanged; the initialize step only adds the files
\* that are absent.
C10_OnlyMutationsWrite ==
    [][ clicked' \notin MutatingButtons =>
          /\ inventory_file' = inventory_file
          /\ waste_log_file' = waste_log_file
          /\ exists' = exists \cup BothFiles
      ]_vars

C10_Witness ==
    /\ clicked = "admin_download"
    /\ inventory_file # <<>>
    /\ waste_log_file # <<>>
====
